---- MODULE Spec2Model ----
(***************************************************************************)
(* gitchain: the ReviewerRegistry and ProposalManager contracts, the       *)
(* bridge that turns MergeApproved events into git merges, and the bare    *)
(* repository the bridge merges into.                                      *)
(*                                                                         *)
(* A contract call is one atomic step (the chain executes transactions one *)
(* at a time and a revert undoes the whole call).  tx holds the last call: *)
(* who made it, with which arguments, how it ended ("ok" or the revert     *)
(* reason) and the events it emitted, in order.  emitted is the bag of all *)
(* ProposalManager events emitted so far.                                  *)
(***************************************************************************)
EXTENDS Integers, Sequences, FiniteSets, Bags, TLC

VARIABLES
    owner,              \* ReviewerRegistry.owner
    agents,             \* ReviewerRegistry._agents
    reviewerList,       \* ReviewerRegistry._reviewerList
    approvalThreshold,  \* ProposalManager.approvalThreshold (immutable)
    proposalCount,      \* ProposalManager.proposalCount
    proposals,          \* ProposalManager._proposals
    votes,              \* ProposalManager._votes
    emitted,            \* the events ProposalManager has emitted (a bag)
    tx,                 \* the last contract call and its outcome
    blockNumber,        \* the transactions mined since the initial state
    running,            \* bridge process -> is it up and subscribed
    handler,            \* bridge process -> proposal id -> MergeApproved handler run
    repo,               \* repoId -> the position of the head of master in the bare repo
    mergesDone,         \* proposal id -> mergeBranch calls that returned for it
    agentProc,          \* reviewer agent -> where its process is in its poll loop
    listing,            \* a getOpenProposals call in progress: what it has read
    hook                \* a post-receive hook run: the ref lines of the push

ledgerVars == <<proposalCount, proposals, votes>>
registryVars == <<owner, agents, reviewerList>>
bridgeVars == <<running, handler, repo, mergesDone>>
chainVars == <<emitted, tx, blockNumber>>
vars == <<owner, agents, reviewerList, approvalThreshold, proposalCount,
          proposals, votes, emitted, tx, blockNumber, running, handler, repo,
          mergesDone, agentProc, listing, hook>>

----------------------------------------------------------------------------
(* Bounds of the model *)

MaxBlocks == 3
MaxProposals == 2
MaxThreshold == 2

----------------------------------------------------------------------------
(* Identities and inputs *)

Deployer == "owner"
ZeroAddress == "0x0"
Addr == {"owner", "alice", "bob"}

ProposalIds == 0 .. (MaxProposals - 1)

Open == "Open"
Approved == "Approved"
Rejected == "Rejected"
Merged == "Merged"
ProposalState == {Open, Approved, Rejected, Merged}

\* revert reasons of the two contracts
NotOwner == "ReviewerRegistry: not owner"
ZeroAddressErr == "ReviewerRegistry: zero address"
EmptyName == "ReviewerRegistry: empty name"
AlreadyRegistered == "ReviewerRegistry: already registered"
NotAReviewerRegistry == "ReviewerRegistry: not a reviewer"
EmptyRepoId == "ProposalManager: empty repoId"
EmptyBranch == "ProposalManager: empty branch"
EmptyHash == "ProposalManager: empty hash"
InvalidId == "ProposalManager: invalid id"
NotAReviewer == "ProposalManager: not a reviewer"
AlreadyVoted == "ProposalManager: already voted"
NotOpen == "ProposalManager: not open"
NotApproved == "ProposalManager: not approved"
Ok == "ok"

\* Solidity's default values of a mapping slot never written
NoAgent == [name |-> "", publicKey |-> "", isActive |-> FALSE]
NoProposal ==
    [id |-> 0, repoId |-> "", branchName |-> "", commitHash |-> "",
     description |-> "", proposer |-> ZeroAddress, state |-> Open,
     approvalCount |-> 0, rejectionCount |-> 0, mergedCommitHash |-> ""]

Call(op, sender, args, result, events) ==
    [op |-> op, sender |-> sender, args |-> args, result |-> result,
     events |-> events]

\* a call that does not revert is mined, in a block of its own
Mined(result) ==
    blockNumber' = IF result = Ok THEN blockNumber + 1 ELSE blockNumber

\* the accounts send at most MaxBlocks transactions that are mined; the one
\* recordMerge a bridge sends for an approval is not counted against them
Budget(result) == result = Ok => blockNumber < MaxBlocks

RECURSIVE SeqToBag(_)
SeqToBag(s) ==
    IF s = <<>> THEN EmptyBag ELSE SetToBag({Head(s)}) (+) SeqToBag(Tail(s))

----------------------------------------------------------------------------
(* ReviewerRegistry *)

\* a slip: a wallet counts once it was registered, deactivated or not
isReviewer_EverRegistered(wallet) == agents[wallet].name # ""

isReviewer(wallet) == agents[wallet].isActive

\* a slip: registerReviewer without the onlyOwner modifier
registerReviewerRevert_NoOwnerCheck(sender, wallet, name) ==
    IF wallet = ZeroAddress THEN ZeroAddressErr
    ELSE IF name = "" THEN EmptyName
    ELSE IF agents[wallet].isActive THEN AlreadyRegistered
    ELSE Ok

\* a slip: a wallet that was ever registered cannot be registered again
registerReviewerRevert_NoReactivation(sender, wallet, name) ==
    IF sender # owner THEN NotOwner
    ELSE IF wallet = ZeroAddress THEN ZeroAddressErr
    ELSE IF name = "" THEN EmptyName
    ELSE IF agents[wallet].name # "" THEN AlreadyRegistered
    ELSE Ok

registerReviewerRevert(sender, wallet, name) ==
    IF sender # owner THEN NotOwner
    ELSE IF wallet = ZeroAddress THEN ZeroAddressErr
    ELSE IF name = "" THEN EmptyName
    ELSE IF agents[wallet].isActive THEN AlreadyRegistered
    ELSE Ok

registerReviewer(sender, wallet, name, publicKey) ==
    LET r == registerReviewerRevert(sender, wallet, name) IN
    /\ Budget(r)
    /\ Mined(r)
    /\ IF r = Ok
       THEN /\ agents' = [agents EXCEPT ![wallet] =
                   [name |-> name, publicKey |-> publicKey, isActive |-> TRUE]]
            /\ reviewerList' = Append(reviewerList, wallet)
       ELSE UNCHANGED <<agents, reviewerList>>
    /\ tx' = Call("registerReviewer", sender, <<wallet, name, publicKey>>, r, <<>>)
    /\ UNCHANGED <<owner, approvalThreshold, ledgerVars, emitted, bridgeVars,
                   agentProc, listing, hook>>

removeReviewerRevert(sender, wallet) ==
    IF sender # owner THEN NotOwner
    ELSE IF ~agents[wallet].isActive THEN NotAReviewerRegistry
    ELSE Ok

\* a slip: the record is deleted instead of being marked
removeReviewerStore_Deletes(agent) == NoAgent

removeReviewerStore(agent) == [agent EXCEPT !.isActive = FALSE]

removeReviewer(sender, wallet) ==
    LET r == removeReviewerRevert(sender, wallet) IN
    /\ IF r = Ok
       THEN agents' = [agents EXCEPT ![wallet] = removeReviewerStore(agents[wallet])]
       ELSE UNCHANGED agents
    /\ tx' = Call("removeReviewer", sender, <<wallet>>, r, <<>>)
    /\ Budget(r)
    /\ Mined(r)
    /\ UNCHANGED <<owner, reviewerList, approvalThreshold, ledgerVars, emitted,
                   bridgeVars, agentProc, listing, hook>>

\* a slip: the record of a wallet that is not active is not returned
getReviewer_ActiveOnly(wallet) ==
    IF agents[wallet].isActive THEN agents[wallet] ELSE NoAgent

getReviewer(wallet) == agents[wallet]

getReviewerList == reviewerList

----------------------------------------------------------------------------
(* ProposalManager *)

ProposalCreated(id, proposer, branchName, commitHash) ==
    [event |-> "ProposalCreated", id |-> id, proposer |-> proposer,
     branchName |-> branchName, commitHash |-> commitHash]
VoteRecorded(id, voter, approved) ==
    [event |-> "VoteRecorded", id |-> id, voter |-> voter, approved |-> approved]
MergeApproved(id, branchName, commitHash) ==
    [event |-> "MergeApproved", id |-> id, branchName |-> branchName,
     commitHash |-> commitHash]
MergeRecorded(id, mergedCommitHash) ==
    [event |-> "MergeRecorded", id |-> id, mergedCommitHash |-> mergedCommitHash]

\* a slip: the require on the branch name is missing
createProposalRevert_NoBranchCheck(repoId, branchName, commitHash) ==
    IF repoId = "" THEN EmptyRepoId
    ELSE IF commitHash = "" THEN EmptyHash
    ELSE Ok

createProposalRevert(repoId, branchName, commitHash) ==
    IF repoId = "" THEN EmptyRepoId
    ELSE IF branchName = "" THEN EmptyBranch
    ELSE IF commitHash = "" THEN EmptyHash
    ELSE Ok

\* a slip: the id is taken before the arguments are checked, and a bad
\* argument ends the call with a return in place of a revert
createProposalCount_TakenOnFailure(r) == proposalCount + 1

\* proposalCount after the call: line 89 runs once the requires have passed
createProposalCount(r) == IF r = Ok THEN proposalCount + 1 ELSE proposalCount

createProposalLedger(sender, repoId, branchName, commitHash, description) ==
    LET r == createProposalRevert(repoId, branchName, commitHash)
        id == proposalCount
        ev == IF r = Ok
              THEN <<ProposalCreated(id, sender, branchName, commitHash)>>
              ELSE <<>>
    IN
    /\ r = Ok => proposalCount < MaxProposals
    /\ Budget(r)
    /\ Mined(r)
    /\ proposalCount' = createProposalCount(r)
    /\ IF r = Ok
       THEN proposals' = [proposals EXCEPT ![id] =
                   [id |-> id, repoId |-> repoId, branchName |-> branchName,
                    commitHash |-> commitHash, description |-> description,
                    proposer |-> sender, state |-> Open, approvalCount |-> 0,
                    rejectionCount |-> 0, mergedCommitHash |-> ""]]
       ELSE UNCHANGED proposals
    /\ emitted' = emitted (+) SeqToBag(ev)
    /\ tx' = Call("createProposal", sender,
                  <<repoId, branchName, commitHash, description>>, r, ev)
    /\ UNCHANGED <<registryVars, approvalThreshold, votes>>

\* createProposal called from an account: no process of the deployment moves
createProposal(sender, repoId, branchName, commitHash, description) ==
    /\ createProposalLedger(sender, repoId, branchName, commitHash, description)
    /\ UNCHANGED <<bridgeVars, agentProc, listing, hook>>

\* a slip: the check that the proposal is Open is missing
voteRevert_NoOpenCheck(sender, proposalId) ==
    IF ~(proposalId < proposalCount) THEN InvalidId
    ELSE IF ~isReviewer(sender) THEN NotAReviewer
    ELSE IF votes[proposalId][sender] THEN AlreadyVoted
    ELSE Ok

\* a slip: the check that the caller has not voted is missing
voteRevert_NoVotedCheck(sender, proposalId) ==
    IF ~(proposalId < proposalCount) THEN InvalidId
    ELSE IF ~isReviewer(sender) THEN NotAReviewer
    ELSE IF proposals[proposalId].state # Open THEN NotOpen
    ELSE Ok

\* a slip: the registry is not asked whether the caller is a reviewer
voteRevert_NoReviewerCheck(sender, proposalId) ==
    IF ~(proposalId < proposalCount) THEN InvalidId
    ELSE IF votes[proposalId][sender] THEN AlreadyVoted
    ELSE IF proposals[proposalId].state # Open THEN NotOpen
    ELSE Ok

\* a slip: the state is checked before the vote record
voteRevert_OpenFirst(sender, proposalId) ==
    IF ~(proposalId < proposalCount) THEN InvalidId
    ELSE IF ~isReviewer(sender) THEN NotAReviewer
    ELSE IF proposals[proposalId].state # Open THEN NotOpen
    ELSE IF votes[proposalId][sender] THEN AlreadyVoted
    ELSE Ok

voteRevert(sender, proposalId) ==
    IF ~(proposalId < proposalCount) THEN InvalidId
    ELSE IF ~isReviewer(sender) THEN NotAReviewer
    ELSE IF votes[proposalId][sender] THEN AlreadyVoted
    ELSE IF proposals[proposalId].state # Open THEN NotOpen
    ELSE Ok

\* a slip: every vote counts as an approval
voteCount_AlwaysApprove(p, approve) == [p EXCEPT !.approvalCount = @ + 1]

\* the counters after the vote is counted (lines 119-123)
voteCount(p, approve) ==
    IF approve
    THEN [p EXCEPT !.approvalCount = @ + 1]
    ELSE [p EXCEPT !.rejectionCount = @ + 1]

\* a slip: > for >=
voteThresholdMet_Strict(p) == p.approvalCount > approvalThreshold

\* the auto-transition (lines 128-131)
voteThresholdMet(p) == p.approvalCount >= approvalThreshold

\* a slip: a threshold of rejections closes the proposal as Rejected
voteTransition_RejectsAtThreshold(p) ==
    IF voteThresholdMet(p) THEN [p EXCEPT !.state = Approved]
    ELSE IF p.rejectionCount >= approvalThreshold THEN [p EXCEPT !.state = Rejected]
    ELSE p

voteTransition(p) ==
    IF voteThresholdMet(p) THEN [p EXCEPT !.state = Approved] ELSE p

\* a slip: MergeApproved is emitted before VoteRecorded
voteEvents_ApprovalFirst(sender, proposalId, approve, p) ==
    (IF voteThresholdMet(p)
     THEN <<MergeApproved(proposalId, p.branchName, p.commitHash)>>
     ELSE <<>>) \o
    <<VoteRecorded(proposalId, sender, approve)>>

voteEvents(sender, proposalId, approve, p) ==
    <<VoteRecorded(proposalId, sender, approve)>> \o
    (IF voteThresholdMet(p)
     THEN <<MergeApproved(proposalId, p.branchName, p.commitHash)>>
     ELSE <<>>)

\* the part of vote that runs on the ledger
voteLedger(sender, proposalId, approve) ==
    LET r == voteRevert(sender, proposalId)
        counted == voteCount(proposals[proposalId], approve)
        ev == IF r = Ok THEN voteEvents(sender, proposalId, approve, counted)
              ELSE <<>>
    IN
    /\ IF r = Ok
       THEN /\ votes' = [votes EXCEPT ![proposalId][sender] = TRUE]
            /\ proposals' = [proposals EXCEPT ![proposalId] = voteTransition(counted)]
       ELSE UNCHANGED <<votes, proposals>>
    /\ emitted' = emitted (+) SeqToBag(ev)
    /\ tx' = Call("vote", sender, <<proposalId, approve>>, r, ev)
    /\ Mined(r)
    /\ UNCHANGED <<registryVars, approvalThreshold, proposalCount>>

\* a slip: the check of the state is missing
recordMergeRevert_NoStateCheck(proposalId, mergedCommitHash) ==
    IF ~(proposalId < proposalCount) THEN InvalidId
    ELSE IF mergedCommitHash = "" THEN EmptyHash
    ELSE Ok

\* a slip: only a proposal that is already Merged is turned away
recordMergeRevert_OnlyMergedFails(proposalId, mergedCommitHash) ==
    IF ~(proposalId < proposalCount) THEN InvalidId
    ELSE IF proposals[proposalId].state = Merged THEN NotApproved
    ELSE IF mergedCommitHash = "" THEN EmptyHash
    ELSE Ok

\* a slip: the merge is refused once a voter of the proposal has been removed
recordMergeRevert_VotersActive(proposalId, mergedCommitHash) ==
    IF ~(proposalId < proposalCount) THEN InvalidId
    ELSE IF proposals[proposalId].state # Approved THEN NotApproved
    ELSE IF \E v \in Addr : votes[proposalId][v] /\ ~isReviewer(v) THEN NotApproved
    ELSE IF mergedCommitHash = "" THEN EmptyHash
    ELSE Ok

recordMergeRevert(proposalId, mergedCommitHash) ==
    IF ~(proposalId < proposalCount) THEN InvalidId
    ELSE IF proposals[proposalId].state # Approved THEN NotApproved
    ELSE IF mergedCommitHash = "" THEN EmptyHash
    ELSE Ok

\* a slip: the hash is not stored
recordMergeStore_NoHash(p, mergedCommitHash) == [p EXCEPT !.state = Merged]

\* a slip: the merged hash is written over the hash of the pushed commit
recordMergeStore_OverwritesCommit(p, mergedCommitHash) ==
    [p EXCEPT !.state = Merged, !.commitHash = mergedCommitHash,
              !.mergedCommitHash = mergedCommitHash]

recordMergeStore(p, mergedCommitHash) ==
    [p EXCEPT !.state = Merged, !.mergedCommitHash = mergedCommitHash]

\* a slip: recordMerge with the onlyOwner check of the registry
recordMergeLedger_OwnerOnly(sender, proposalId, mergedCommitHash) ==
    LET r == IF sender # owner THEN NotOwner
             ELSE recordMergeRevert(proposalId, mergedCommitHash)
        ev == IF r = Ok THEN <<MergeRecorded(proposalId, mergedCommitHash)>>
              ELSE <<>>
    IN
    /\ IF r = Ok
       THEN proposals' = [proposals EXCEPT ![proposalId] =
                              recordMergeStore(@, mergedCommitHash)]
       ELSE UNCHANGED proposals
    /\ emitted' = emitted (+) SeqToBag(ev)
    /\ tx' = Call("recordMerge", sender, <<proposalId, mergedCommitHash>>, r, ev)
    /\ Mined(r)
    /\ UNCHANGED <<registryVars, approvalThreshold, proposalCount, votes>>

\* the part of recordMerge that runs on the ledger
recordMergeLedger(sender, proposalId, mergedCommitHash) ==
    LET r == recordMergeRevert(proposalId, mergedCommitHash)
        ev == IF r = Ok THEN <<MergeRecorded(proposalId, mergedCommitHash)>>
              ELSE <<>>
    IN
    /\ IF r = Ok
       THEN proposals' = [proposals EXCEPT ![proposalId] =
                              recordMergeStore(@, mergedCommitHash)]
       ELSE UNCHANGED proposals
    /\ emitted' = emitted (+) SeqToBag(ev)
    /\ tx' = Call("recordMerge", sender, <<proposalId, mergedCommitHash>>, r, ev)
    /\ Mined(r)
    /\ UNCHANGED <<registryVars, approvalThreshold, proposalCount, votes>>

\* the require of getProposal (line 157)
getProposalRevert(proposalId) ==
    IF ~(proposalId < proposalCount) THEN InvalidId ELSE Ok

getProposal(proposalId) == proposals[proposalId]
\* a slip: the vote is looked up by voter alone
hasVoted_AnyProposal(proposalId, voter) ==
    \E id \in ProposalIds : votes[id][voter]

hasVoted(proposalId, voter) == votes[proposalId][voter]

----------------------------------------------------------------------------
(* The repository and the bridge *)

Bridges == {"bridge1", "bridge2"}
BRIDGE_WALLET == Deployer

\* what a handler run caught, besides the revert reasons of recordMerge
MergeFailed == "mergeBranch threw"
ProviderError == "recordMerge was not mined"

\* a run of the handler: where it is, what it has read and computed, the
\* error its catch got and the recordMerge calls it has made
Idle == [pc |-> "idle", branchName |-> "", repoId |-> "", mergedHash |-> "",
         error |-> "", attempts |-> 0]

\* a slip: rev-parse runs before the merge and names the old head
Sha_BeforeMerge(n) == ToString(n - 1)

\* a slip: the output of rev-parse is dropped
Sha_Empty(n) == ""

\* a commit of master, named after its position
Sha(n) == ToString(n)

\* contracts.proposals.on("MergeApproved", ...): every bridge that is subscribed
\* when the event is emitted gets one run of its handler for it
deliver(events) ==
    [b \in Bridges |->
        [id \in ProposalIds |->
            IF running[b] /\ \E i \in 1 .. Len(events) :
                                 /\ events[i].event = "MergeApproved"
                                 /\ events[i].id = id
            THEN [pc |-> "getProposal",
                  branchName |-> proposals[id].branchName,
                  repoId |-> "", mergedHash |-> "",
                  error |-> "", attempts |-> 0]
            ELSE handler[b][id]]]

vote(sender, proposalId, approve) ==
    /\ Budget(voteRevert(sender, proposalId))
    /\ voteLedger(sender, proposalId, approve)
    /\ handler' = deliver(tx'.events)
    /\ UNCHANGED <<running, repo, mergesDone, agentProc, listing, hook>>

recordMerge(sender, proposalId, mergedCommitHash) ==
    /\ Budget(recordMergeRevert(proposalId, mergedCommitHash))
    /\ recordMergeLedger(sender, proposalId, mergedCommitHash)
    /\ UNCHANGED <<bridgeVars, agentProc, listing, hook>>

startBridge(b) ==
    /\ ~running[b]
    /\ running' = [running EXCEPT ![b] = TRUE]
    /\ UNCHANGED <<agentProc, listing, hook, registryVars, approvalThreshold, ledgerVars, chainVars,
                   handler, repo, mergesDone>>

\* the process ends; the runs of its handlers end with it
stopBridge(b) ==
    /\ running[b]
    /\ running' = [running EXCEPT ![b] = FALSE]
    /\ handler' = [handler EXCEPT ![b] = [id \in ProposalIds |-> Idle]]
    /\ UNCHANGED <<agentProc, listing, hook, registryVars, approvalThreshold, ledgerVars, chainVars,
                   repo, mergesDone>>

\* line 48-49: raw = getProposal(proposalId); repoId = raw.repoId
handlerGetProposal(b, id) ==
    /\ handler[b][id].pc = "getProposal"
    /\ handler' = [handler EXCEPT ![b][id] =
           [@ EXCEPT !.pc = "mergeBranch", !.repoId = getProposal(id).repoId]]
    /\ UNCHANGED <<agentProc, listing, hook, registryVars, approvalThreshold, ledgerVars, chainVars,
                   running, repo, mergesDone>>

\* mergeBranch: git merge origin/<branch> in a clone of master, then push.  It
\* throws when git does (a conflict, a missing branch, a rejected push); when
\* it returns, master's head is the commit it returns: a new commit, or the
\* old head when the branch was already contained in master.
mergeBranchHead(head, isNewCommit) == IF isNewCommit THEN head + 1 ELSE head

\* a slip: the error is not caught: the rejection is unhandled and the
\* process exits (lines 107-110)
handlerCatch_Exits(b) == running' = [running EXCEPT ![b] = FALSE]

\* lines 71-79: the catch logs the error; the process goes on
handlerCatch(b) == running' = running

\* line 57, and the catch of lines 71-79 when mergeBranch throws
handlerMergeBranch(b, id) ==
    /\ handler[b][id].pc = "mergeBranch"
    /\ \E succeeds \in BOOLEAN, isNewCommit \in BOOLEAN :
          IF succeeds
          THEN LET head == mergeBranchHead(repo[handler[b][id].repoId], isNewCommit) IN
               /\ repo' = [repo EXCEPT ![handler[b][id].repoId] = head]
               /\ mergesDone' = [mergesDone EXCEPT ![id] = @ + 1]
               /\ handler' = [handler EXCEPT ![b][id] =
                      [@ EXCEPT !.pc = "recordMerge", !.mergedHash = Sha(head)]]
               /\ UNCHANGED running
          ELSE /\ isNewCommit = FALSE
               /\ handler' = [handler EXCEPT ![b][id] =
                      [@ EXCEPT !.pc = "failed", !.error = MergeFailed]]
               /\ handlerCatch(b)
               /\ UNCHANGED <<repo, mergesDone>>
    /\ UNCHANGED <<agentProc, listing, hook, registryVars, approvalThreshold, ledgerVars, chainVars>>

\* line 64, and the catch of lines 71-79 when the call throws: the
\* transaction reverts, or the provider fails and it is never mined
handlerRecordMerge(b, id) ==
    /\ handler[b][id].pc = "recordMerge"
    /\ \E mined \in BOOLEAN :
          IF mined
          THEN /\ recordMergeLedger(BRIDGE_WALLET, id, handler[b][id].mergedHash)
               /\ handler' = [handler EXCEPT ![b][id] =
                      [@ EXCEPT !.pc = IF tx'.result = Ok THEN "done" ELSE "failed",
                                !.error = IF tx'.result = Ok THEN "" ELSE tx'.result,
                                !.attempts = @ + 1]]
               /\ IF tx'.result = Ok THEN UNCHANGED running ELSE handlerCatch(b)
          ELSE /\ handler' = [handler EXCEPT ![b][id] =
                      [@ EXCEPT !.pc = "failed", !.error = ProviderError,
                                !.attempts = @ + 1]]
               /\ handlerCatch(b)
               /\ UNCHANGED <<registryVars, approvalThreshold, ledgerVars,
                              chainVars>>
    /\ UNCHANGED <<repo, mergesDone, agentProc, listing, hook>>

----------------------------------------------------------------------------
(* The reviewer agents *)

\* one agent process per reviewer wallet
ReviewerAgents == {"alice", "bob"}

\* a process in its poll loop: about to poll or inside agent.generate, the
\* proposals it was given to review and has not dealt with, and the castVote
\* calls of this cycle
Polling == [pc |-> "poll", unvoted |-> {}, calls |-> 0, up |-> TRUE]

\* the proposals that are Open and that the signer has not voted on
getOpenUnvotedProposals(signerAddress) ==
    {id \in ProposalIds :
        /\ id < proposalCount
        /\ getProposal(id).state = Open
        /\ ~hasVoted(id, signerAddress)}

\* lines 278-295: the poll; with nothing to review the loop sleeps and polls
\* again, otherwise the proposals go to agent.generate
runAgentPoll(a) ==
    /\ agentProc[a].up
    /\ agentProc[a].pc = "poll"
    /\ LET unvoted == getOpenUnvotedProposals(a) IN
       agentProc' = [agentProc EXCEPT ![a] =
           [@ EXCEPT !.pc = IF unvoted = {} THEN "poll" ELSE "generate",
                     !.unvoted = unvoted, !.calls = 0]]
    /\ UNCHANGED <<registryVars, approvalThreshold, ledgerVars, chainVars,
                   bridgeVars, listing, hook>>

\* a slip: the error is not caught: the rejection is unhandled and the
\* process exits (lines 307-310)
runAgentCatch_Exits(a, proc) ==
    agentProc' = [agentProc EXCEPT ![a] =
                     [proc EXCEPT !.pc = "exit", !.up = FALSE]]

\* lines 296-301: the catch logs "Poll error", the cycle is over and the
\* loop sleeps and polls again
runAgentCatch(a, proc) ==
    agentProc' = [agentProc EXCEPT ![a] =
                     [proc EXCEPT !.pc = "poll", !.unvoted = {}]]

\* the tools approveProposal and rejectProposal, called by the decision
\* engine inside agent.generate for a proposal it was given: castVote sends
\* vote and waits for it.  When the call throws, the tool loop hands the
\* error to the decision engine as the result of the tool, or lets it
\* through to the catch of runAgent.
approveOrRejectProposal(a, id, approve) ==
    /\ agentProc[a].up
    /\ agentProc[a].pc = "generate"
    /\ id \in agentProc[a].unvoted
    /\ Budget(voteRevert(a, id))
    /\ voteLedger(a, id, approve)
    /\ handler' = deliver(tx'.events)
    /\ LET called == [agentProc[a] EXCEPT !.unvoted = @ \ {id}, !.calls = @ + 1] IN
       \E thrown \in BOOLEAN :
           IF tx'.result # Ok /\ thrown
           THEN runAgentCatch(a, called)
           ELSE /\ thrown = FALSE
                /\ agentProc' = [agentProc EXCEPT ![a] = called]
    /\ UNCHANGED <<running, repo, mergesDone, listing, hook>>

\* agent.generate returns; line 301: the loop sleeps and polls again
runAgentSleep(a) ==
    /\ agentProc[a].up
    /\ agentProc[a].pc = "generate"
    /\ agentProc' = [agentProc EXCEPT ![a] =
           [@ EXCEPT !.pc = "poll", !.unvoted = {}]]
    /\ UNCHANGED <<registryVars, approvalThreshold, ledgerVars, chainVars,
                   bridgeVars, listing, hook>>

----------------------------------------------------------------------------
(* Listing the proposals *)

\* the wallet of the agent that lists
SignerAddress == "alice"

\* a call of the tool getOpenProposals: the count getAllProposals has read,
\* the index of its loop, the proposals it has read, then the index of the
\* loop of the tool and the ids it has kept
NotListing == [pc |-> "idle", count |-> 0, i |-> 0, results |-> <<>>,
               unvoted |-> <<>>, error |-> ""]

\* getAllProposals, line 167: count = proposalCount()
getAllProposalsCount ==
    /\ listing.pc = "idle"
    /\ listing' = [NotListing EXCEPT !.pc = "getProposal", !.count = proposalCount]
    /\ UNCHANGED <<registryVars, approvalThreshold, ledgerVars, chainVars,
                   bridgeVars, agentProc, hook>>

\* a slip: <= for <
getAllProposalsLoop_Inclusive(i, count) == i <= count

\* getAllProposals, line 169: i < count
getAllProposalsLoop(i, count) == i < count

\* getAllProposals, lines 169-172: one getProposal(i) per turn of the loop; a
\* revert of the call ends getAllProposals with the error
getAllProposalsGetProposal ==
    /\ listing.pc = "getProposal"
    /\ IF getAllProposalsLoop(listing.i, listing.count)
       THEN IF getProposalRevert(listing.i) = Ok
            THEN listing' = [listing EXCEPT
                                !.results = Append(@, getProposal(listing.i)),
                                !.i = @ + 1]
            ELSE listing' = [listing EXCEPT
                                !.pc = "failed",
                                !.error = getProposalRevert(listing.i)]
       ELSE listing' = [listing EXCEPT !.pc = "hasVoted", !.i = 0]
    /\ UNCHANGED <<registryVars, approvalThreshold, ledgerVars, chainVars,
                   bridgeVars, agentProc, hook>>

\* a slip: the state of the proposal is not looked at
getOpenProposalsKeep_AnyState(p, voted) == ~voted

\* getOpenProposals, lines 102-104: Open, and not voted on by the signer
getOpenProposalsKeep(p, voted) == p.state = Open /\ ~voted

\* getOpenProposals, lines 101-113: one turn of the loop over what was read,
\* with its hasVoted call
getOpenProposalsHasVoted ==
    /\ listing.pc = "hasVoted"
    /\ IF listing.i < Len(listing.results)
       THEN LET p == listing.results[listing.i + 1]
                voted == hasVoted(p.id, SignerAddress)
            IN  listing' = [listing EXCEPT
                    !.unvoted = IF getOpenProposalsKeep(p, voted)
                                THEN Append(@, p.id) ELSE @,
                    !.i = @ + 1]
       ELSE listing' = [listing EXCEPT !.pc = "done"]
    /\ UNCHANGED <<registryVars, approvalThreshold, ledgerVars, chainVars,
                   bridgeVars, agentProc, hook>>

\* the tool returns, or throws; the next call starts afresh
getOpenProposalsReturn ==
    /\ listing.pc \in {"done", "failed"}
    /\ listing' = NotListing
    /\ UNCHANGED <<registryVars, approvalThreshold, ledgerVars, chainVars,
                   bridgeVars, agentProc, hook>>

----------------------------------------------------------------------------
(* The post-receive hook of the bare repository (git.ts) and the propose   *)
(* command it runs (cli.ts)                                                *)

\* the most ref lines in one push
MaxRefs == 2

\* the object name git writes for the missing side of a created or a deleted
\* ref
ZeroRev == "0000000"

\* the lines git hands to the hook on its standard input, one per ref of the
\* push: oldrev, newrev and refname, the refname being prefix \o name. A
\* created branch, a second one, the base branch moved by a merge of the
\* bridge, a branch named HEAD, a branch pushed again, a tag
RefLines ==
    { [oldrev |-> ZeroRev, newrev |-> "c1", prefix |-> "refs/heads/", name |-> "feature"],
      [oldrev |-> ZeroRev, newrev |-> "c2", prefix |-> "refs/heads/", name |-> "fix"],
      [oldrev |-> "c0", newrev |-> "c1", prefix |-> "refs/heads/", name |-> "master"],
      [oldrev |-> ZeroRev, newrev |-> "c1", prefix |-> "refs/heads/", name |-> "HEAD"],
      [oldrev |-> "c1", newrev |-> "c2", prefix |-> "refs/heads/", name |-> "feature"],
      [oldrev |-> ZeroRev, newrev |-> "c1", prefix |-> "refs/tags/", name |-> "v1"] }

\* a push names a ref once
Pushes ==
    { lines \in UNION { [1 .. n -> RefLines] : n \in 1 .. MaxRefs } :
        \A k, l \in DOMAIN lines :
            k # l => <<lines[k].prefix, lines[k].name>> # <<lines[l].prefix, lines[l].name>> }

\* no hook is running: the lines of the push, the lines not read yet, and the
\* propose commands run so far with their exit status
NoPush == [push |-> <<>>, rest |-> <<>>, calls |-> <<>>]

\* line 305: branch=$(echo "$refname" | sed 's|refs/heads/||')
hookBranch(ref) ==
    IF ref.prefix = "refs/heads/" THEN ref.name ELSE ref.prefix \o ref.name

\* line 308: [ "$branch" = "master" ] || [ "$branch" = "HEAD" ]
hookSkip(branch) == branch = "master" \/ branch = "HEAD"

\* a slip: the script stops at the first propose that fails, as under set -e
hookAfterFailure_Aborts(rest) == <<>>

\* lines 313-315: a propose that fails prints a warning and the loop reads on
hookAfterFailure(rest) == Tail(rest)

\* git runs the hook once the refs of a push are updated
gitPush(lines) ==
    /\ hook.rest = <<>>
    /\ hook' = [push |-> lines, rest |-> lines, calls |-> <<>>]
    /\ UNCHANGED <<registryVars, approvalThreshold, ledgerVars, chainVars,
                   bridgeVars, agentProc, listing>>

\* lines 304-316: one turn of the while loop of the hook; cli.ts 49-76: propose
\* calls createProposal with wallet 0 and exits 0, or exits 1 when the call or
\* the connection to the node throws
postReceiveLine ==
    /\ hook.rest # <<>>
    /\ LET ref == Head(hook.rest)
           branch == hookBranch(ref)
       IN  IF hookSkip(branch)
           THEN /\ hook' = [hook EXCEPT !.rest = Tail(@)]
                /\ UNCHANGED <<registryVars, approvalThreshold, ledgerVars, chainVars>>
           ELSE \E connected \in BOOLEAN :
                  /\ IF connected
                     THEN createProposalLedger(Deployer, "repo", branch, ref.newrev,
                                               "Push: " \o branch)
                     ELSE UNCHANGED <<registryVars, approvalThreshold, ledgerVars,
                                      chainVars>>
                  /\ LET ok == connected /\ tx'.result = Ok
                     IN  hook' = [hook EXCEPT
                            !.rest = IF ok THEN Tail(@) ELSE hookAfterFailure(@),
                            !.calls = Append(@, [branch |-> branch,
                                                 commitHash |-> ref.newrev,
                                                 ok |-> ok])]
    /\ UNCHANGED <<bridgeVars, agentProc, listing>>

----------------------------------------------------------------------------
(* Specifications *)

PublicKeys == {"alice-pubkey"}
MergedHashes == {"", "merged-hash", "merged"}
Wallets == Addr \cup {ZeroAddress}

\* registerReviewer: the owner with every wallet, the owner with an empty
\* name, and a call by another
RegisterCalls ==
    {<<Deployer, w, "Alice", k>> : w \in Wallets, k \in PublicKeys}
    \cup {<<Deployer, "bob", "", "alice-pubkey">>,
          <<"alice", "bob", "Alice", "alice-pubkey">>}

\* removeReviewer: the owner with every wallet, and a call by another
RemoveCalls == {<<Deployer, w>> : w \in Wallets} \cup {<<"alice", "bob">>}

\* createProposal: everything given, or one argument empty
CreateCalls ==
    {<<Deployer, "repo", "branch", "hash", "desc">>,
     <<"alice", "repo", "branch", "hash", "">>,
     <<Deployer, "", "branch", "hash", "desc">>,
     <<Deployer, "repo", "", "hash", "desc">>,
     <<Deployer, "repo", "branch", "", "desc">>}

\* the ids a caller passes: those of the proposals and the first one out of range
CallIds == 0 .. proposalCount

\* The registry as its constructor leaves it, and as the test fixture does,
\* which registers Alice and Bob right after the deployment.
RegistryDeployed ==
    /\ owner = Deployer
    /\ agents = [a \in Wallets |-> NoAgent]
    /\ reviewerList = <<>>

RegistryFixture ==
    /\ owner = Deployer
    /\ agents = [a \in Wallets |->
           IF a = "alice"
           THEN [name |-> "Alice", publicKey |-> "alice-pubkey", isActive |-> TRUE]
           ELSE IF a = "bob"
           THEN [name |-> "Bob", publicKey |-> "bob-pubkey", isActive |-> TRUE]
           ELSE NoAgent]
    /\ reviewerList = <<"alice", "bob">>

Init ==
    /\ RegistryDeployed \/ RegistryFixture
    /\ approvalThreshold \in 1 .. MaxThreshold
    /\ proposalCount = 0
    /\ proposals = [id \in ProposalIds |-> NoProposal]
    /\ votes = [id \in ProposalIds |-> [a \in Addr |-> FALSE]]
    /\ emitted = EmptyBag
    /\ tx = Call("constructor", Deployer, <<>>, Ok, <<>>)
    /\ blockNumber = 0
    /\ running = [b \in Bridges |-> FALSE]
    /\ handler = [b \in Bridges |-> [id \in ProposalIds |-> Idle]]
    /\ repo = [r \in {"repo"} |-> 0]
    /\ mergesDone = [id \in ProposalIds |-> 0]
    /\ agentProc = [a \in ReviewerAgents |-> Polling]
    /\ listing = NotListing
    /\ hook = NoPush

\* the two contracts, called by anyone with anything
Next ==
    \/ \E c \in RegisterCalls : registerReviewer(c[1], c[2], c[3], c[4])
    \/ \E c \in RemoveCalls : removeReviewer(c[1], c[2])
    \/ \E c \in CreateCalls : createProposal(c[1], c[2], c[3], c[4], c[5])
    \/ \E s \in Addr, id \in CallIds, approve \in BOOLEAN : vote(s, id, approve)
    \/ \E id \in CallIds, h \in MergedHashes : recordMerge("bob", id, h)

Spec == Init /\ [][Next]_vars

\* The contracts with the bridge processes: reviewers are registered and vote,
\* a proposal is pushed, anyone may report a merge, bridge processes start and
\* stop at any time, and the handlers of the running ones take their steps.
\* Of the calls the accounts send, those that revert are left out here: they
\* change nothing and no bridge sees them.
HandlerStep(b, id) ==
    \/ handlerGetProposal(b, id)
    \/ handlerMergeBranch(b, id)
    \/ handlerRecordMerge(b, id)

NextBridge ==
    \/ \E w \in {"alice", "bob"} :
          registerReviewer(Deployer, w, "Alice", "alice-pubkey") /\ tx'.result = Ok
    \/ createProposal(Deployer, "repo", "branch", "hash", "desc")
    \/ \E s \in {"alice", "bob"}, id \in ProposalIds, approve \in BOOLEAN :
          vote(s, id, approve) /\ tx'.result = Ok
    \/ \E id \in ProposalIds : recordMerge("bob", id, "merged") /\ tx'.result = Ok
    \/ \E b \in Bridges : startBridge(b)
    \/ \E b \in Bridges : stopBridge(b)
    \/ \E b \in Bridges, id \in ProposalIds : handlerGetProposal(b, id)
    \/ \E b \in Bridges, id \in ProposalIds : handlerMergeBranch(b, id)
    \/ \E b \in Bridges, id \in ProposalIds : handlerRecordMerge(b, id)

SpecBridge == Init /\ [][NextBridge]_vars

\* The calls that take no account of their caller, createProposal and
\* recordMerge, sent by every account, while the owner registers and removes
\* reviewers and the reviewers approve: each account is at times a stranger,
\* an active reviewer and a removed one.
NextCallers ==
    \/ \E w \in {"alice", "bob"} :
          registerReviewer(Deployer, w, "Alice", "alice-pubkey") /\ tx'.result = Ok
    \/ \E w \in {"alice", "bob"} : removeReviewer(Deployer, w) /\ tx'.result = Ok
    \/ \E s \in Addr, branchName \in {"branch", ""} :
          createProposal(s, "repo", branchName, "hash", "desc")
    \/ \E s \in {"alice", "bob"}, id \in ProposalIds :
          vote(s, id, TRUE) /\ tx'.result = Ok
    \/ \E s \in Addr, id \in CallIds, h \in {"", "merged"} : recordMerge(s, id, h)

SpecCallers == Init /\ [][NextCallers]_vars

\* The contracts with the reviewer agents: the owner registers reviewers,
\* proposals are pushed, each agent polls and votes in its own time, and a
\* merge is reported for an approved proposal.
NextAgents ==
    \/ \E w \in ReviewerAgents :
          registerReviewer(Deployer, w, "Alice", "alice-pubkey") /\ tx'.result = Ok
    \/ createProposal(Deployer, "repo", "branch", "hash", "desc")
    \/ \E id \in ProposalIds :
          recordMerge(BRIDGE_WALLET, id, "merged") /\ tx'.result = Ok
    \/ \E a \in ReviewerAgents : runAgentPoll(a)
    \/ \E a \in ReviewerAgents, id \in ProposalIds, approve \in BOOLEAN :
          approveOrRejectProposal(a, id, approve)
    \/ \E a \in ReviewerAgents : runAgentSleep(a)

SpecAgents == Init /\ [][NextAgents]_vars

\* The ledger as the tests "rejects double voting" and "handles rejection
\* votes" have it after their first two calls: the fixture, the proposal
\* createProposal("repo", "branch", "hash", "desc") of the owner, and the vote
\* of alice on it, an approval or a rejection.
FixtureProposal ==
    [NoProposal EXCEPT !.repoId = "repo", !.branchName = "branch",
                       !.commitHash = "hash", !.description = "desc",
                       !.proposer = Deployer]

InitVoted ==
    /\ RegistryFixture
    /\ approvalThreshold \in 1 .. MaxThreshold
    /\ proposalCount = 1
    /\ \E approve \in BOOLEAN :
          LET counted == voteCount(FixtureProposal, approve)
              ev == voteEvents("alice", 0, approve, counted)
          IN  /\ proposals = [id \in ProposalIds |->
                     IF id = 0 THEN voteTransition(counted) ELSE NoProposal]
              /\ emitted = SeqToBag(
                     <<ProposalCreated(0, Deployer, "branch", "hash")>> \o ev)
              /\ tx = Call("vote", "alice", <<0, approve>>, Ok, ev)
    /\ votes = [id \in ProposalIds |-> [a \in Addr |-> id = 0 /\ a = "alice"]]
    /\ blockNumber = 0
    /\ running = [b \in Bridges |-> FALSE]
    /\ handler = [b \in Bridges |-> [id \in ProposalIds |-> Idle]]
    /\ repo = [r \in {"repo"} |-> 0]
    /\ mergesDone = [id \in ProposalIds |-> 0]
    /\ agentProc = [a \in ReviewerAgents |-> Polling]
    /\ listing = NotListing
    /\ hook = NoPush

\* from there: the owner removes and registers reviewers, the reviewers
\* vote, a proposal is pushed and a merge is reported
NextVoted ==
    \/ \E w \in {"alice", "bob"} : removeReviewer(Deployer, w)
    \/ \E w \in {"alice", "bob"} :
          registerReviewer(Deployer, w, "Alice", "alice-pubkey")
    \/ createProposal(Deployer, "repo", "branch", "hash", "desc")
    \/ \E s \in {"alice", "bob"}, id \in CallIds, approve \in BOOLEAN :
          vote(s, id, approve)
    \/ \E id \in CallIds : recordMerge(Deployer, id, "merged")

SpecVoted == InitVoted /\ [][NextVoted]_vars

\* The contracts with an agent that lists the proposals, read by read, while
\* proposals are pushed, reviewers vote and merges are reported.
NextListing ==
    \/ \E w \in {"alice", "bob"} :
          registerReviewer(Deployer, w, "Alice", "alice-pubkey") /\ tx'.result = Ok
    \/ \E proposer \in {Deployer, "alice"} :
          createProposal(proposer, "repo", "branch", "hash", "desc")
    \/ \E s \in {"alice", "bob"}, id \in ProposalIds, approve \in BOOLEAN :
          vote(s, id, approve) /\ tx'.result = Ok
    \/ \E id \in ProposalIds :
          recordMerge(Deployer, id, "merged") /\ tx'.result = Ok
    \/ getAllProposalsCount
    \/ getAllProposalsGetProposal
    \/ getOpenProposalsHasVoted
    \/ getOpenProposalsReturn

SpecListing == Init /\ [][NextListing]_vars

\* pushes to the bare repository and the runs of its hook
NextHook ==
    \/ \E lines \in Pushes : gitPush(lines)
    \/ postReceiveLine

SpecHook == Init /\ [][NextHook]_vars

\* Node runs a handler's continuation once the call it awaits has returned,
\* so a handler that can take a step takes it.
FairSpecBridge ==
    /\ Init
    /\ [][NextBridge]_vars
    /\ \A b \in Bridges, id \in ProposalIds : WF_vars(HandlerStep(b, id))

\* The same with one bridge process only: the second one is never started.
NextOneBridge ==
    \/ \E w \in {"alice", "bob"} :
          registerReviewer(Deployer, w, "Alice", "alice-pubkey") /\ tx'.result = Ok
    \/ createProposal(Deployer, "repo", "branch", "hash", "desc")
    \/ \E s \in {"alice", "bob"}, id \in ProposalIds, approve \in BOOLEAN :
          vote(s, id, approve) /\ tx'.result = Ok
    \/ \E id \in ProposalIds : recordMerge("bob", id, "merged") /\ tx'.result = Ok
    \/ startBridge("bridge1")
    \/ stopBridge("bridge1")
    \/ \E id \in ProposalIds : handlerGetProposal("bridge1", id)
    \/ \E id \in ProposalIds : handlerMergeBranch("bridge1", id)
    \/ \E id \in ProposalIds : handlerRecordMerge("bridge1", id)

FairSpecOneBridge ==
    /\ Init
    /\ [][NextOneBridge]_vars
    /\ \A id \in ProposalIds : WF_vars(HandlerStep("bridge1", id))

----------------------------------------------------------------------------
(* What the claims speak of *)

\* the last call was vote(proposalId, approve) by sender
VoteCalled(sender, proposalId, approve) ==
    /\ tx.op = "vote"
    /\ tx.sender = sender
    /\ tx.args = <<proposalId, approve>>

\* the last call was recordMerge(proposalId, mergedCommitHash), by anyone
RecordMergeCalled(proposalId, mergedCommitHash) ==
    /\ tx.op = "recordMerge"
    /\ tx.args = <<proposalId, mergedCommitHash>>

\* the successful votes on a proposal, read off the VoteRecorded events
VotersOf(id, approved) ==
    {v \in Addr : CopiesIn(VoteRecorded(id, v, approved), emitted) > 0}
TimesVoted(id, v) ==
    CopiesIn(VoteRecorded(id, v, TRUE), emitted)
    + CopiesIn(VoteRecorded(id, v, FALSE), emitted)

Exists(id) == id < proposalCount

----------------------------------------------------------------------------
(* C1 *)

\* C1: no proposal is ever Open with approvalCount >= approvalThreshold, and
\* the step that brings approvalCount to the threshold is a vote that leaves
\* the proposal Approved.
C1_NoOpenAtThreshold ==
    /\ \A id \in ProposalIds :
          ~(proposals[id].approvalCount >= approvalThreshold
            /\ proposals[id].state = Open)
    /\ tx.op = "vote" /\ tx.result = Ok
       /\ proposals[tx.args[1]].approvalCount >= approvalThreshold
       => /\ proposals[tx.args[1]].state = Approved
          /\ tx.events[Len(tx.events)].event = "MergeApproved"

C1_Witness ==
    /\ tx.op = "vote" /\ tx.result = Ok /\ tx.args[2] = TRUE
    /\ proposals[tx.args[1]].approvalCount = approvalThreshold
    /\ proposals[tx.args[1]].state = Approved

----------------------------------------------------------------------------
(* C2 *)

C2_CountsMatch ==
    \A id \in ProposalIds :
        /\ proposals[id].approvalCount = Cardinality(VotersOf(id, TRUE))
        /\ proposals[id].rejectionCount = Cardinality(VotersOf(id, FALSE))
        /\ \A v \in Addr : TimesVoted(id, v) <= 1

\* C2: approvalCount is the number of distinct voters whose vote approve=true
\* succeeded, rejectionCount the number whose vote approve=false succeeded,
\* no voter counts more than once, and no counter ever decreases.
C2_CountersAreVotes ==
    /\ C2_CountsMatch
    /\ [][/\ C2_CountsMatch'
          /\ \A id \in ProposalIds :
                /\ proposals'[id].approvalCount >= proposals[id].approvalCount
                /\ proposals'[id].rejectionCount >= proposals[id].rejectionCount]_vars

C2_Witness ==
    \E id \in ProposalIds :
        /\ proposals[id].approvalCount = 0
        /\ proposals[id].rejectionCount = 1
        /\ VotersOf(id, FALSE) = {tx.sender}
        /\ tx.op = "vote" /\ tx.result = Ok /\ tx.args = <<id, FALSE>>

----------------------------------------------------------------------------
(* C3 *)

\* C3: a step changes a proposal's state only from Open to Approved, by a
\* successful vote on it, or from Approved to Merged, by a successful
\* recordMerge on it.
C3_StateMonotonic ==
    [][\A id \in ProposalIds :
          proposals'[id].state # proposals[id].state =>
              \/ /\ proposals[id].state = Open
                 /\ proposals'[id].state = Approved
                 /\ tx'.op = "vote" /\ tx'.result = Ok /\ tx'.args[1] = id
              \/ /\ proposals[id].state = Approved
                 /\ proposals'[id].state = Merged
                 /\ tx'.op = "recordMerge" /\ tx'.result = Ok
                 /\ tx'.args[1] = id]_vars

C3_Witness ==
    \E id \in ProposalIds :
        /\ proposals[id].state = Merged
        /\ tx.op = "recordMerge" /\ tx.result # Ok /\ tx.args[1] = id

----------------------------------------------------------------------------
(* C4 *)

\* C4: a vote on a proposal that is Approved or Merged fails, whoever calls
\* and whatever approve is, with NotOpen when the caller is an active reviewer
\* who has not voted on it; counters, votes, state and events stay as they were.
C4_NoVoteAfterOpen ==
    [][\A s \in Addr, id \in ProposalIds, a \in BOOLEAN :
          (Exists(id) /\ proposals[id].state # Open /\ VoteCalled(s, id, a)') =>
              /\ tx'.result # Ok
              /\ agents[s].isActive /\ ~votes[id][s] => tx'.result = NotOpen
              /\ UNCHANGED <<ledgerVars, emitted>>]_vars

C4_Witness ==
    \E id \in ProposalIds :
        /\ proposals[id].state = Approved
        /\ tx.op = "vote" /\ tx.result = NotOpen /\ tx.args = <<id, FALSE>>

----------------------------------------------------------------------------
(* C5 *)

\* C5 as stated: recordMerge on an existing proposal succeeds exactly when
\* the proposal is Approved at call time.
C5_SucceedsIffApproved ==
    [][\A id \in ProposalIds, h \in MergedHashes :
          (Exists(id) /\ RecordMergeCalled(id, h)') =>
              (tx'.result = Ok <=> proposals[id].state = Approved)]_vars

\* C5, amended: recordMerge on an existing proposal succeeds exactly when the
\* proposal is Approved at call time and mergedCommit is not empty; it then
\* leaves the proposal Merged with that mergedCommit.  On an Open proposal and
\* on a Merged one (the second call) it fails with NotApproved and changes
\* nothing, so the stored mergedCommit stays that of the first call.
C5_RecordMergeOutcome ==
    [][\A id \in ProposalIds, h \in MergedHashes :
          (Exists(id) /\ RecordMergeCalled(id, h)') =>
              /\ tx'.result = Ok <=> (proposals[id].state = Approved /\ h # "")
              /\ tx'.result = Ok =>
                    proposals' = [proposals EXCEPT ![id] =
                        [@ EXCEPT !.state = Merged, !.mergedCommitHash = h]]
              /\ proposals[id].state \in {Open, Merged} =>
                    /\ tx'.result = NotApproved
                    /\ UNCHANGED <<ledgerVars, emitted>>]_vars

C5_Witness ==
    \E id \in ProposalIds :
        /\ proposals[id].state = Merged
        /\ tx.op = "recordMerge" /\ tx.result = NotApproved
        /\ tx.args[1] = id
        /\ tx.args[2] \notin {"", proposals[id].mergedCommitHash}

----------------------------------------------------------------------------
(* C6 *)

C6_SetIffMerged ==
    \A id \in ProposalIds :
        proposals[id].mergedCommitHash # "" <=> proposals[id].state = Merged

\* C6: mergedCommitHash is non-empty exactly when the proposal is Merged, and
\* a non-empty mergedCommitHash never changes.
C6_MergedCommitSetOnce ==
    /\ C6_SetIffMerged
    /\ [][/\ C6_SetIffMerged'
          /\ \A id \in ProposalIds :
                proposals[id].mergedCommitHash # "" =>
                    proposals'[id].mergedCommitHash
                        = proposals[id].mergedCommitHash]_vars

C6_Witness ==
    \E id \in ProposalIds :
        /\ proposals[id].state = Merged
        /\ proposals[id].mergedCommitHash = "merged-hash"
        /\ tx.op = "recordMerge" /\ tx.args = <<id, "merged">>

----------------------------------------------------------------------------
(* C9 *)

\* C9 as stated: a vote by a caller who has already voted on the proposal
\* fails with AlreadyVoted and changes nothing.
C9_SecondVoteAlreadyVoted ==
    [][\A s \in Addr, id \in ProposalIds, a \in BOOLEAN :
          (Exists(id) /\ votes[id][s] /\ VoteCalled(s, id, a)') =>
              /\ tx'.result = AlreadyVoted
              /\ UNCHANGED <<ledgerVars, emitted>>]_vars

\* C9, amended: a vote by a caller who has already voted on the proposal
\* fails, whatever approve is in either call, and changes no counter, vote or
\* state: with AlreadyVoted when the caller is an active reviewer at call
\* time, with NotAReviewer when the caller has been deactivated since.
C9_SecondVoteFails ==
    [][\A s \in Addr, id \in ProposalIds, a \in BOOLEAN :
          (Exists(id) /\ votes[id][s] /\ VoteCalled(s, id, a)') =>
              /\ tx'.result = IF agents[s].isActive THEN AlreadyVoted
                              ELSE NotAReviewer
              /\ UNCHANGED <<ledgerVars, emitted>>]_vars

\* the second vote asks for the opposite of the first
C9_Witness ==
    /\ tx.op = "vote" /\ tx.result = AlreadyVoted
    /\ CopiesIn(VoteRecorded(tx.args[1], tx.sender, ~tx.args[2]), emitted) = 1

----------------------------------------------------------------------------
(* C10 *)

\* C10 as stated: a vote by a caller who is not an active reviewer fails with
\* NotAReviewer and changes nothing.
C10_NonReviewerNotAReviewer ==
    [][\A s \in Addr, id \in CallIds, a \in BOOLEAN :
          (~agents[s].isActive /\ VoteCalled(s, id, a)') =>
              /\ tx'.result = NotAReviewer
              /\ UNCHANGED <<ledgerVars, emitted>>]_vars

\* C10, amended: a vote on an existing proposal by a caller who is not an
\* active reviewer (never registered, or deactivated) fails with NotAReviewer
\* and changes no counter, vote or state.
C10_NonReviewerRejected ==
    [][\A s \in Addr, id \in ProposalIds, a \in BOOLEAN :
          (Exists(id) /\ ~agents[s].isActive /\ VoteCalled(s, id, a)') =>
              /\ tx'.result = NotAReviewer
              /\ UNCHANGED <<ledgerVars, emitted>>]_vars

\* a deactivated reviewer is turned away while another has never registered
C10_Witness ==
    /\ tx.op = "vote" /\ tx.result = NotAReviewer
    /\ agents[tx.sender].name # ""
    /\ \E s \in Addr : agents[s] = NoAgent

----------------------------------------------------------------------------
(* C11 *)

\* C11: a call that fails, with whatever error, leaves the whole state of the
\* directory and of the ledger as it was and emits no event; a createProposal
\* that fails takes no id.
C11_FailedCallChangesNothing ==
    [][tx'.result # Ok =>
          /\ UNCHANGED <<registryVars, approvalThreshold, ledgerVars, emitted>>
          /\ tx'.events = <<>>]_vars

C11_Witness ==
    /\ tx.op = "createProposal" /\ tx.result = EmptyBranch
    /\ proposalCount = 1
    /\ BagCardinality(emitted) = 1

----------------------------------------------------------------------------
(* C12 *)

\* the MergeApproved events emitted for a proposal
MergeApprovedOf(id) ==
    {e \in BagToSet(emitted) : e.event = "MergeApproved" /\ e.id = id}

\* C12: a proposal that is Approved or Merged has exactly one MergeApproved
\* event, an Open one has none; MergeApproved is emitted by the vote that
\* brings approvalCount to the threshold and by nothing else, in that vote's
\* transaction, right after its VoteRecorded event.
C12_MergeApprovedWithVote ==
    /\ \A id \in ProposalIds :
          IF proposals[id].state \in {Approved, Merged}
          THEN /\ MergeApprovedOf(id) =
                    {MergeApproved(id, proposals[id].branchName,
                                   proposals[id].commitHash)}
               /\ \A e \in MergeApprovedOf(id) : CopiesIn(e, emitted) = 1
          ELSE MergeApprovedOf(id) = {}
    /\ [][\A id \in ProposalIds :
             LET reaches == /\ proposals[id].approvalCount < approvalThreshold
                            /\ proposals'[id].approvalCount >= approvalThreshold
                 ev == MergeApproved(id, proposals[id].branchName,
                                     proposals[id].commitHash)
             IN  /\ reaches =>
                       /\ tx'.op = "vote" /\ tx'.result = Ok
                       /\ tx'.events = <<VoteRecorded(id, tx'.sender, TRUE), ev>>
                       /\ proposals'[id].state = Approved
                 /\ MergeApprovedOf(id)' # MergeApprovedOf(id) =>
                       /\ reaches
                       /\ emitted' = emitted (+) SeqToBag(tx'.events)]_vars

C12_Witness ==
    /\ approvalThreshold = 2
    /\ tx.op = "vote" /\ tx.result = Ok
    /\ Len(tx.events) = 2
    /\ tx.events[1].event = "VoteRecorded" /\ tx.events[2].event = "MergeApproved"
    /\ proposals[tx.args[1]].state = Approved

----------------------------------------------------------------------------
(* C13 *)

\* C13: a handler run that finds its proposal already Merged when it reads it
\* goes no further: it does not go on to mergeBranch (and so not to
\* recordMerge either).
C13_SkipsMerged ==
    [][\A b \in Bridges, id \in ProposalIds :
          (handler[b][id].pc = "getProposal" /\ proposals[id].state = Merged) =>
              handler'[b][id].pc # "mergeBranch"]_vars

----------------------------------------------------------------------------
(* C14 *)

\* C14: a handler run whose merge succeeded gives up on an error of
\* recordMerge other than NotApproved only after it has called recordMerge
\* again with the hash it had computed.
C14_ReattemptsRecordMerge ==
    [][\A b \in Bridges, id \in ProposalIds :
          (/\ handler[b][id].pc = "recordMerge"
           /\ handler'[b][id].pc = "failed"
           /\ handler'[b][id].error # NotApproved) =>
              handler'[b][id].attempts >= 2]_vars

----------------------------------------------------------------------------
(* C15 *)

\* the commits master has had
Commits == {ToString(n) : n \in 0 .. repo["repo"]}

\* C15 as stated: every Merged proposal has had a merge of its branch that
\* succeeded, and its mergedCommit is a commit of master.
C15_MergedMeansMerged ==
    \A id \in ProposalIds :
        proposals[id].state = Merged =>
            /\ mergesDone[id] >= 1
            /\ proposals[id].mergedCommitHash \in Commits

\* C15, amended: a handler run that has come to recordMerge has merged the
\* branch, and holds the commit its merge returned, which was the head of
\* master then; the recordMerge of a bridge that succeeds leaves the proposal
\* Merged with that commit.  (A recordMerge sent by anyone else may store any
\* hash, merge or no merge.)
C15_BridgeRecordsItsMerge ==
    /\ \A b \in Bridges, id \in ProposalIds :
          handler[b][id].pc \in {"recordMerge", "done"} =>
              /\ mergesDone[id] >= 1
              /\ handler[b][id].mergedHash \in Commits
    /\ [][\A b \in Bridges, id \in ProposalIds :
             /\ (handler[b][id].pc = "mergeBranch"
                 /\ handler'[b][id].pc = "recordMerge") =>
                    /\ handler'[b][id].mergedHash = ToString(repo'["repo"])
                    /\ mergesDone'[id] = mergesDone[id] + 1
             /\ (handler[b][id].pc = "recordMerge"
                 /\ handler'[b][id].pc = "done") =>
                    /\ proposals[id].state = Approved
                    /\ proposals'[id].state = Merged
                    /\ proposals'[id].mergedCommitHash = handler[b][id].mergedHash
                    /\ handler'[b][id].mergedHash = handler[b][id].mergedHash]_vars

C15_Witness ==
    \E b \in Bridges, id \in ProposalIds :
        /\ handler[b][id].pc = "done"
        /\ proposals[id].state = Merged
        /\ proposals[id].mergedCommitHash = "1"
        /\ repo["repo"] = 1

----------------------------------------------------------------------------
(* C16 *)

\* C16: when mergeBranch throws, the run ends there: the ledger, its events
\* and the repository are as before (the proposal Approved, mergedCommit
\* empty, as far as this bridge goes), the run never calls recordMerge, the
\* process keeps running, its other runs are untouched, and a MergeApproved
\* event emitted while it runs starts a run of its handler.
C16_MergeFailureLeavesApproved ==
    /\ \A b \in Bridges, id \in ProposalIds :
          handler[b][id].error = MergeFailed =>
              /\ handler[b][id].pc = "failed"
              /\ handler[b][id].attempts = 0
              /\ handler[b][id].mergedHash = ""
    /\ [][\A b \in Bridges, id \in ProposalIds :
             /\ (handler[b][id].pc = "mergeBranch"
                 /\ handler'[b][id].pc = "failed") =>
                    /\ UNCHANGED <<ledgerVars, emitted, tx, repo, mergesDone>>
                    /\ running' = running /\ running[b]
                    /\ handler' = [handler EXCEPT ![b][id] = handler'[b][id]]
             /\ handler[b][id].error = MergeFailed =>
                    handler'[b][id] \in {handler[b][id], Idle}
             /\ (/\ running[b]
                 /\ MergeApproved(id, proposals[id].branchName,
                                   proposals[id].commitHash) \notin BagToSet(emitted)
                 /\ MergeApproved(id, proposals[id].branchName,
                                   proposals[id].commitHash) \in BagToSet(emitted')) =>
                    /\ handler'[b][id].pc = "getProposal"
                    /\ running'[b]]_vars

C16_Witness ==
    \E b \in Bridges, id \in ProposalIds :
        /\ handler[b][id].pc = "failed" /\ handler[b][id].error = MergeFailed
        /\ running[b]
        /\ proposals[id].state = Approved
        /\ proposals[id].mergedCommitHash = ""
        /\ mergesDone[id] = 0

----------------------------------------------------------------------------
(* C17 *)

\* C17: a run of the handler that failed at mergeBranch is followed, while
\* the process runs and the proposal is not Merged, by another attempt at
\* the merge.
C17_MergeRetried ==
    \A id \in ProposalIds, b \in Bridges :
        [](handler[b][id].error = MergeFailed /\ running[b]
           => <>(\/ proposals[id].state = Merged
                 \/ handler[b][id].pc = "mergeBranch"
                 \/ ~running[b]))

----------------------------------------------------------------------------
(* C18 *)

\* the MergeRecorded events emitted for a proposal
MergeRecordedOf(id) ==
    {e \in BagToSet(emitted) : e.event = "MergeRecorded" /\ e.id = id}

\* C18: with two bridges on one MergeApproved event, recordMerge succeeds at
\* most once for the proposal and mergedCommit is what that call passed; a
\* bridge's recordMerge on a proposal that is no longer Approved fails with
\* NotApproved (when it reaches the contract) and changes nothing, and a run
\* that failed calls nothing more.
C18_OneRecordMergeWins ==
    /\ \A id \in ProposalIds :
          /\ Cardinality(MergeRecordedOf(id)) <= 1
          /\ \A e \in MergeRecordedOf(id) :
                /\ CopiesIn(e, emitted) = 1
                /\ proposals[id].state = Merged
                /\ proposals[id].mergedCommitHash = e.mergedCommitHash
          /\ Cardinality({b \in Bridges : handler[b][id].pc = "done"}) <= 1
    /\ [][\A b \in Bridges, id \in ProposalIds :
             /\ (/\ handler[b][id].pc = "recordMerge"
                 /\ handler'[b][id].pc \in {"done", "failed"}
                 /\ proposals[id].state # Approved) =>
                    /\ handler'[b][id].pc = "failed"
                    /\ handler'[b][id].error \in {NotApproved, ProviderError}
                    /\ handler'[b][id].error = NotApproved =>
                          tx' = Call("recordMerge", BRIDGE_WALLET,
                                     <<id, handler[b][id].mergedHash>>,
                                     NotApproved, <<>>)
                    /\ UNCHANGED <<ledgerVars, emitted, running>>
             /\ handler[b][id].pc = "failed" =>
                    handler'[b][id] \in {handler[b][id], Idle}]_vars

C18_Witness ==
    \E id \in ProposalIds :
        /\ handler["bridge1"][id].pc = "done"
        /\ handler["bridge2"][id].pc = "failed"
        /\ handler["bridge2"][id].error = NotApproved
        /\ handler["bridge2"][id].mergedHash # handler["bridge1"][id].mergedHash
        /\ proposals[id].state = Merged
        /\ proposals[id].mergedCommitHash = handler["bridge1"][id].mergedHash

----------------------------------------------------------------------------
(* C19 *)

\* C19: a run of the handler of a running bridge, started by the
\* MergeApproved event of a proposal, leads to the proposal being Merged
\* unless mergeBranch throws or the process stops.
C19_ApprovedEventuallyMerged ==
    \A id \in ProposalIds, b \in Bridges :
        [](handler[b][id].pc = "getProposal" /\ running[b]
           => <>(\/ proposals[id].state = Merged
                 \/ handler[b][id].error = MergeFailed
                 \/ ~running[b]))

----------------------------------------------------------------------------
(* C20 *)

\* C20: no proposal is ever Rejected, and a vote with approve = false that
\* succeeds adds one to rejectionCount and changes nothing else of the
\* proposal, however many such votes there have been.
C20_NeverRejected ==
    /\ \A id \in ProposalIds : proposals[id].state # Rejected
    /\ [][\A s \in Addr, id \in ProposalIds :
             (VoteCalled(s, id, FALSE)' /\ tx'.result = Ok) =>
                 proposals' = [proposals EXCEPT ![id].rejectionCount = @ + 1]]_vars

C20_Witness ==
    \E id \in ProposalIds :
        /\ proposals[id].rejectionCount = 2
        /\ proposals[id].rejectionCount >= approvalThreshold
        /\ proposals[id].state = Open /\ proposals[id].approvalCount = 0
        /\ tx.op = "vote" /\ tx.result = Ok /\ tx.args = <<id, FALSE>>

----------------------------------------------------------------------------
(* C21 *)

\* C21: registerReviewer and removeReviewer called by anyone but the owner
\* revert with "not owner" and change nothing in either contract; the owner
\* is the deployer and no call changes it.
C21_OnlyOwnerManages ==
    /\ [](owner = Deployer)
    /\ [][/\ owner' = owner
          /\ tx'.op \in {"registerReviewer", "removeReviewer"}
                /\ tx'.sender # owner
             => /\ tx'.result = NotOwner
                /\ UNCHANGED <<registryVars, ledgerVars, emitted, blockNumber>>]_vars

C21_Witness ==
    /\ tx.op = "registerReviewer"
    /\ tx.sender = "alice" /\ tx.sender # owner
    /\ tx.result = NotOwner
    /\ ~agents[tx.args[1]].isActive
    /\ reviewerList = <<>>

----------------------------------------------------------------------------
(* C22 *)

\* the reasons the specification calls InvalidInput, for registerReviewer
RegistryInvalidInput == {ZeroAddressErr, EmptyName}

\* C22: registerReviewer by the owner fails with "already registered"
\* whenever the wallet is active and with InvalidInput whenever the wallet is
\* the zero address or the name is empty; otherwise it succeeds, after which
\* the wallet is active and its record has the name and key given.
C22_RegisterOutcome ==
    [][tx'.op = "registerReviewer" /\ tx'.sender = owner
       => LET wallet == tx'.args[1]
              name == tx'.args[2]
              publicKey == tx'.args[3]
              invalid == wallet = ZeroAddress \/ name = ""
          IN  /\ agents[wallet].isActive => tx'.result = AlreadyRegistered
              /\ invalid => tx'.result \in RegistryInvalidInput
              /\ ~agents[wallet].isActive /\ ~invalid
                 => /\ tx'.result = Ok
                    /\ agents'[wallet] = [name |-> name, publicKey |-> publicKey,
                                          isActive |-> TRUE]]_vars

\* C22, amended: registerReviewer by the owner fails with InvalidInput
\* whenever the wallet is the zero address or the name is empty, and
\* otherwise with "already registered" when the wallet is active; in every
\* other case, a deactivated wallet included, it succeeds, after which the
\* wallet is active and its record has the name and key given.
C22_RegisterOutcomeInOrder ==
    [][tx'.op = "registerReviewer" /\ tx'.sender = owner
       => LET wallet == tx'.args[1]
              name == tx'.args[2]
              publicKey == tx'.args[3]
              invalid == wallet = ZeroAddress \/ name = ""
          IN  /\ invalid => tx'.result \in RegistryInvalidInput
              /\ agents[wallet].isActive /\ ~invalid
                 => tx'.result = AlreadyRegistered
              /\ ~agents[wallet].isActive /\ ~invalid
                 => /\ tx'.result = Ok
                    /\ agents'[wallet] = [name |-> name, publicKey |-> publicKey,
                                          isActive |-> TRUE]]_vars

\* a deactivated wallet registered again, under another name and key
C22_Witness ==
    /\ tx.op = "registerReviewer" /\ tx.sender = owner /\ tx.result = Ok
    /\ tx.args = <<"bob", "Alice", "alice-pubkey">>
    /\ agents["bob"] = [name |-> "Alice", publicKey |-> "alice-pubkey",
                        isActive |-> TRUE]
    /\ reviewerList = <<"alice", "bob", "bob">>

----------------------------------------------------------------------------
(* C23 *)

\* C23: removeReviewer by the owner reverts with "not a reviewer" when the
\* wallet is not active; when it is, the call sets isActive to false and
\* nothing else: the name and the key of the record stay, every other record
\* stays, and the reviewer list, which holds the wallet, stays.
C23_RemoveOnlyDeactivates ==
    [][tx'.op = "removeReviewer" /\ tx'.sender = owner
       => LET wallet == tx'.args[1] IN
          IF ~agents[wallet].isActive
          THEN /\ tx'.result = NotAReviewerRegistry
               /\ UNCHANGED registryVars
          ELSE /\ tx'.result = Ok
               /\ ~agents'[wallet].isActive
               /\ agents'[wallet].name = agents[wallet].name
               /\ agents'[wallet].publicKey = agents[wallet].publicKey
               /\ \A other \in Wallets \ {wallet} : agents'[other] = agents[other]
               /\ reviewerList' = reviewerList
               /\ \E i \in 1 .. Len(reviewerList') : reviewerList'[i] = wallet
               /\ UNCHANGED <<owner, ledgerVars, emitted>>]_vars

C23_Witness ==
    /\ tx.op = "removeReviewer" /\ tx.sender = owner /\ tx.result = Ok
    /\ tx.args = <<"bob">>
    /\ agents["bob"] = [name |-> "Bob", publicKey |-> "bob-pubkey",
                        isActive |-> FALSE]
    /\ reviewerList = <<"alice", "bob">>

----------------------------------------------------------------------------
(* C24 *)

\* the values of the struct Agent; NotFound is not one of them
Agent == [name : STRING, publicKey : STRING, isActive : BOOLEAN]

\* the wallets ever registered: every registration appends to the list
EverRegistered == {reviewerList[i] : i \in 1 .. Len(reviewerList)}

----------------------------------------------------------------------------
(* C25 *)

\* the ids of the ProposalCreated events emitted so far
CreatedIds == {e.id : e \in {x \in BagToSet(emitted) : x.event = "ProposalCreated"}}

\* C25: createProposal reverts with an InvalidInput reason when repoId,
\* branchName or commitHash is empty, whatever the description; otherwise it
\* takes proposalCount as the id, reports it, adds one to proposalCount and
\* stores a proposal that is Open, has both counts 0, no merged commit and
\* the caller as proposer.  The ids given out so far are 0 .. proposalCount - 1,
\* each once.
C25_SequentialIds ==
    /\ [](/\ CreatedIds = 0 .. (proposalCount - 1)
          /\ \A e \in BagToSet(emitted) :
                 e.event = "ProposalCreated" => CopiesIn(e, emitted) = 1
          /\ \A id \in CreatedIds : proposals[id].id = id)
    /\ [][tx'.op = "createProposal"
          => LET repoId == tx'.args[1]
                 branchName == tx'.args[2]
                 commitHash == tx'.args[3]
                 description == tx'.args[4]
                 id == proposalCount
             IN  IF repoId = "" \/ branchName = "" \/ commitHash = ""
                 THEN /\ tx'.result \in {EmptyRepoId, EmptyBranch, EmptyHash}
                      /\ UNCHANGED ledgerVars
                 ELSE /\ tx'.result = Ok
                      /\ tx'.events =
                           <<ProposalCreated(id, tx'.sender, branchName, commitHash)>>
                      /\ proposalCount' = id + 1
                      /\ proposals'[id] =
                           [id |-> id, repoId |-> repoId, branchName |-> branchName,
                            commitHash |-> commitHash, description |-> description,
                            proposer |-> tx'.sender, state |-> Open,
                            approvalCount |-> 0, rejectionCount |-> 0,
                            mergedCommitHash |-> ""]]_vars

\* the second proposal, created by alice with an empty description
C25_Witness ==
    /\ tx.op = "createProposal" /\ tx.result = Ok
    /\ tx.sender = "alice" /\ tx.args[4] = ""
    /\ proposalCount = 2
    /\ tx.events[1].id = 1
    /\ proposals[1].proposer = "alice" /\ proposals[1].state = Open
    /\ proposals[0].proposer = Deployer

----------------------------------------------------------------------------
(* C26 *)

\* what the caller of a call is to the registry
CallerClass(sender) ==
    IF sender = owner THEN "owner"
    ELSE IF agents[sender].isActive THEN "active reviewer"
    ELSE IF sender \in EverRegistered THEN "deactivated reviewer"
    ELSE "stranger"

\* C26: whether createProposal and recordMerge succeed, and what they leave
\* in the ledger, is decided by the arguments and the ledger before the call,
\* whoever the caller is: owner, active reviewer, deactivated reviewer or
\* stranger.  Only the proposer of a created proposal is the caller.
C26_CallerIndependent ==
    [][/\ tx'.op = "createProposal"
          => LET id == proposalCount
                 valid == tx'.args[1] # "" /\ tx'.args[2] # "" /\ tx'.args[3] # ""
             IN  IF valid
                 THEN /\ tx'.result = Ok
                      /\ proposalCount' = id + 1
                      /\ [proposals'[id] EXCEPT !.proposer = ZeroAddress] =
                           [NoProposal EXCEPT !.id = id, !.repoId = tx'.args[1],
                                              !.branchName = tx'.args[2],
                                              !.commitHash = tx'.args[3],
                                              !.description = tx'.args[4]]
                      /\ \A other \in ProposalIds \ {id} :
                             proposals'[other] = proposals[other]
                      /\ votes' = votes
                 ELSE /\ tx'.result # Ok
                      /\ UNCHANGED ledgerVars
       /\ tx'.op = "recordMerge"
          => LET id == tx'.args[1]
                 hash == tx'.args[2]
                 valid == /\ id < proposalCount
                          /\ proposals[id].state = Approved
                          /\ hash # ""
             IN  IF valid
                 THEN /\ tx'.result = Ok
                      /\ proposals' = [proposals EXCEPT ![id].state = Merged,
                                                        ![id].mergedCommitHash = hash]
                      /\ UNCHANGED <<proposalCount, votes>>
                 ELSE /\ tx'.result # Ok
                      /\ UNCHANGED ledgerVars]_vars

\* two proposals from the same arguments, the first created by the owner and
\* the second by a deactivated reviewer, alike but for the id and the proposer
C26_Witness ==
    /\ tx.op = "createProposal" /\ tx.result = Ok
    /\ CallerClass(tx.sender) = "deactivated reviewer"
    /\ proposalCount = 2
    /\ CallerClass(proposals[0].proposer) = "owner"
    /\ proposals[1].proposer = tx.sender
    /\ [proposals[1] EXCEPT !.id = 0, !.proposer = Deployer] = proposals[0]

----------------------------------------------------------------------------
(* C27 *)

\* C27: hasVoted(id, voter) is true exactly when a vote by that voter on that
\* proposal has succeeded; it changes only in a successful vote by that voter
\* on that proposal, and only from false to true.
C27_HasVotedIsOwnVote ==
    /\ [](\A id \in ProposalIds, voter \in Addr :
              hasVoted(id, voter) <=> TimesVoted(id, voter) > 0)
    /\ [][\A id \in ProposalIds, voter \in Addr :
              hasVoted(id, voter)' # hasVoted(id, voter)
              => /\ ~hasVoted(id, voter) /\ hasVoted(id, voter)'
                 /\ tx'.op = "vote" /\ tx'.result = Ok
                 /\ tx'.sender = voter /\ tx'.args[1] = id]_vars

\* alice has voted on proposal 0: not on proposal 1, and bob on neither
C27_Witness ==
    /\ proposalCount = 2
    /\ VoteCalled("alice", 0, FALSE) /\ tx.result = Ok
    /\ hasVoted(0, "alice") /\ ~hasVoted(1, "alice")
    /\ ~hasVoted(0, "bob") /\ ~hasVoted(1, "bob")

----------------------------------------------------------------------------
(* C28 *)

\* C28: a bridge calls recordMerge for a proposal from a handler run in which
\* mergeBranch, called with the repository and the branch of that proposal,
\* has returned, and it passes the commit mergeBranch returned; a run in
\* which mergeBranch threw calls recordMerge never.
C28_RecordMergeAfterMerge ==
    /\ [](\A b \in Bridges, id \in ProposalIds :
             /\ handler[b][id].pc = "recordMerge" \/ handler[b][id].attempts > 0
                => /\ mergesDone[id] >= 1
                   /\ handler[b][id].mergedHash \in Commits
                   /\ handler[b][id].repoId = proposals[id].repoId
                   /\ handler[b][id].branchName = proposals[id].branchName
             /\ handler[b][id].error = MergeFailed => handler[b][id].attempts = 0)
    /\ [][\A b \in Bridges, id \in ProposalIds :
             /\ handler'[b][id].attempts # handler[b][id].attempts
                   /\ handler'[b][id].attempts # 0
                => /\ handler[b][id].pc = "recordMerge"
                   /\ handler'[b][id].attempts = handler[b][id].attempts + 1
                   /\ tx' # tx => /\ tx'.op = "recordMerge"
                                  /\ tx'.sender = BRIDGE_WALLET
                                  /\ tx'.args = <<id, handler[b][id].mergedHash>>
             /\ handler'[b][id].pc = "recordMerge" /\ handler[b][id].pc # "recordMerge"
                => /\ handler[b][id].pc = "mergeBranch"
                   /\ mergesDone'[id] = mergesDone[id] + 1
                   /\ handler'[b][id].mergedHash =
                        ToString(repo'[proposals[id].repoId])]_vars

\* the one recordMerge call of a run, after its merge, with the commit of it
C28_Witness ==
    \E b \in Bridges, id \in ProposalIds :
        /\ handler[b][id].attempts = 1
        /\ mergesDone[id] = 1
        /\ tx.op = "recordMerge" /\ tx.sender = BRIDGE_WALLET /\ tx.result = Ok
        /\ tx.args = <<id, ToString(repo[proposals[id].repoId])>>
        /\ proposals[id].mergedCommitHash = handler[b][id].mergedHash

----------------------------------------------------------------------------
(* C29 *)

\* C29: vote fails with the first of these that applies: "invalid id" when
\* proposalId >= proposalCount, "not a reviewer" when the caller is not
\* active, "already voted" when the caller has voted on the proposal, "not
\* open" when the proposal is not Open; it succeeds when none does.  So an
\* active reviewer who has voted on a proposal that is now Approved or Merged
\* gets "already voted".
C29_VoteFailurePrecedence ==
    [][tx'.op = "vote"
       => LET sender == tx'.sender
              id == tx'.args[1]
          IN  /\ tx'.result =
                    IF id >= proposalCount THEN InvalidId
                    ELSE IF ~agents[sender].isActive THEN NotAReviewer
                    ELSE IF votes[id][sender] THEN AlreadyVoted
                    ELSE IF proposals[id].state # Open THEN NotOpen
                    ELSE Ok
              /\ (/\ id < proposalCount
                  /\ agents[sender].isActive
                  /\ votes[id][sender]
                  /\ proposals[id].state \in {Approved, Merged})
                 => tx'.result = AlreadyVoted]_vars

\* a reviewer's second vote, on a proposal that is Approved by now
C29_Witness ==
    /\ tx.op = "vote" /\ tx.result = AlreadyVoted
    /\ agents[tx.sender].isActive
    /\ votes[tx.args[1]][tx.sender]
    /\ proposals[tx.args[1]].state = Approved

----------------------------------------------------------------------------
(* C30 *)

\* C30: a vote that an agent sends for a proposal it found Open and unvoted,
\* and that arrives when the proposal is no longer Open, fails with "not
\* open" and changes no counter, vote or state; the agent drops the proposal,
\* its process stays up and goes on to its next poll; and no account has more
\* than one vote recorded on a proposal.
C30_LateVoteDropped ==
    /\ [](/\ \A id \in ProposalIds, a \in Addr : TimesVoted(id, a) <= 1
          /\ \A a \in ReviewerAgents :
                 agentProc[a].up /\ agentProc[a].pc \in {"poll", "generate"})
    /\ [][\A a \in ReviewerAgents, id \in ProposalIds :
             (/\ agentProc'[a].calls = agentProc[a].calls + 1
              /\ tx'.op = "vote" /\ tx'.sender = a /\ tx'.args[1] = id
              /\ agents[a].isActive
              /\ proposals[id].state # Open)
             => /\ id \in agentProc[a].unvoted
                /\ ~votes[id][a]
                /\ tx'.result = NotOpen
                /\ UNCHANGED <<ledgerVars, emitted>>
                /\ agentProc'[a].up
                /\ id \notin agentProc'[a].unvoted]_vars

\* bob polled while proposal 0 was Open, alice's vote approved it, and bob's
\* vote came after that
C30_Witness ==
    /\ tx.op = "vote" /\ tx.sender = "bob" /\ tx.result = NotOpen
    /\ proposals[tx.args[1]].state = Approved
    /\ TimesVoted(tx.args[1], "alice") = 1 /\ TimesVoted(tx.args[1], "bob") = 0
    /\ agentProc["bob"].up /\ agentProc["bob"].calls = 1
    /\ agentProc["bob"].pc = "poll"

----------------------------------------------------------------------------
(* C33 *)

\* C33: approvalCount never exceeds approvalThreshold, and a proposal is
\* Approved or Merged exactly when its approvalCount equals the threshold.
C33_ApprovalCountBounded ==
    \A id \in ProposalIds :
        /\ proposals[id].approvalCount <= approvalThreshold
        /\ proposals[id].state \in {Approved, Merged}
           <=> proposals[id].approvalCount = approvalThreshold
        /\ proposals[id].state = Open
           <=> proposals[id].approvalCount < approvalThreshold

\* a merged proposal, its count still at the threshold
C33_Witness ==
    \E id \in ProposalIds :
        /\ proposals[id].state = Merged
        /\ proposals[id].approvalCount = approvalThreshold
        /\ proposals[id].mergedCommitHash # ""

----------------------------------------------------------------------------
(* C34 *)

\* the accounts with a vote recorded on a proposal
HasVotedOn(id) == {v \in Addr : votes[id][v]}

\* C34: for every proposal approvalCount + rejectionCount is the number of
\* accounts with a vote recorded on it, and a vote is recorded, and counted,
\* only in a call by an account that is an active reviewer when it calls.
C34_CountsAreRecordedVotes ==
    /\ [](\A id \in ProposalIds :
             proposals[id].approvalCount + proposals[id].rejectionCount
                 = Cardinality(HasVotedOn(id)))
    /\ [][\A id \in ProposalIds, v \in Addr :
             v \in HasVotedOn(id)' \ HasVotedOn(id)
             => /\ agents[v].isActive
                /\ tx'.op = "vote" /\ tx'.sender = v /\ tx'.result = Ok
                /\ proposals'[id].approvalCount + proposals'[id].rejectionCount
                     = proposals[id].approvalCount + proposals[id].rejectionCount + 1]_vars

\* one approval and one rejection on a proposal, by two reviewers
C34_Witness ==
    \E id \in ProposalIds :
        /\ proposals[id].approvalCount = 1 /\ proposals[id].rejectionCount = 1
        /\ HasVotedOn(id) = {"alice", "bob"}
        /\ agents["alice"].isActive /\ agents["bob"].isActive

----------------------------------------------------------------------------
(* C35 *)

\* how often a wallet was registered: every registration appends to the list
Registrations(wallet) ==
    Cardinality({i \in 1 .. Len(reviewerList) : reviewerList[i] = wallet})

\* C35: registerReviewer and removeReviewer leave the vote records as they
\* are, so a reviewer who has voted on a proposal and has been removed and
\* registered again gets "already voted" when voting on it again, and the call
\* changes no counter, vote or state.
C35_NoSecondVoteAfterReregistration ==
    [][/\ tx'.op \in {"registerReviewer", "removeReviewer"} => votes' = votes
       /\ tx'.op = "vote"
          => LET voter == tx'.sender
                 id == tx'.args[1]
             IN  (/\ id < proposalCount
                  /\ votes[id][voter]
                  /\ Registrations(voter) >= 2
                  /\ agents[voter].isActive)
                 => /\ tx'.result = AlreadyVoted
                    /\ UNCHANGED <<ledgerVars, emitted>>]_vars

\* alice, who voted on proposal 0, was removed and registered again, and
\* votes on it once more
C35_Witness ==
    /\ tx.op = "vote" /\ tx.sender = "alice" /\ tx.args[1] = 0
    /\ tx.result = AlreadyVoted
    /\ reviewerList = <<"alice", "bob", "alice">>
    /\ agents["alice"].isActive
    /\ proposals[0].approvalCount + proposals[0].rejectionCount = 1

----------------------------------------------------------------------------
(* C36 *)

\* C36: registerReviewer and removeReviewer change no proposal, no vote
\* record and no proposalCount; the vote of a reviewer who has been removed
\* stays recorded and counted, and a proposal that is Approved stays so and
\* takes a recordMerge, whatever has become of its voters.
C36_RegistryLeavesLedger ==
    /\ [](\A id \in ProposalIds :
             proposals[id].approvalCount + proposals[id].rejectionCount
                 = Cardinality({v \in Addr : votes[id][v]}))
    /\ [][/\ tx'.op \in {"registerReviewer", "removeReviewer"}
             => UNCHANGED <<ledgerVars, emitted>>
          /\ tx'.op = "recordMerge"
                /\ tx'.args[1] < proposalCount
                /\ proposals[tx'.args[1]].state = Approved
                /\ tx'.args[2] # ""
             => /\ tx'.result = Ok
                /\ proposals'[tx'.args[1]].state = Merged]_vars

\* alice approved proposal 0, which made it Approved, and was removed; the
\* merge is recorded all the same, with her vote still counted
C36_Witness ==
    /\ tx.op = "recordMerge" /\ tx.result = Ok /\ tx.args[1] = 0
    /\ proposals[0].state = Merged
    /\ proposals[0].approvalCount = 1
    /\ votes[0] = [a \in Addr |-> a = "alice"]
    /\ ~agents["alice"].isActive

----------------------------------------------------------------------------
(* C37 *)

\* what createProposal stores and nothing writes again
Created(p) == <<p.id, p.repoId, p.branchName, p.commitHash, p.description,
                p.proposer>>

\* C37: the id, repoId, branchName, commitHash, description and proposer of a
\* proposal never change once it is created; a vote or a recordMerge leaves
\* every proposal other than the one it names, and the votes on it, as they
\* are; and recordMerge leaves the counts and the votes of the proposal it
\* names as they are.
C37_ProposalFrame ==
    [][/\ \A id \in ProposalIds :
             id < proposalCount => Created(proposals'[id]) = Created(proposals[id])
       /\ tx'.op \in {"vote", "recordMerge"}
          => \A other \in ProposalIds \ {tx'.args[1]} :
                 /\ proposals'[other] = proposals[other]
                 /\ votes'[other] = votes[other]
       /\ tx'.op = "recordMerge"
          => /\ votes' = votes
             /\ \A id \in ProposalIds :
                   /\ proposals'[id].approvalCount = proposals[id].approvalCount
                   /\ proposals'[id].rejectionCount = proposals[id].rejectionCount]_vars

\* a merge recorded: what was created is there, and so is the vote
C37_Witness ==
    /\ tx.op = "recordMerge" /\ tx.result = Ok
    /\ Created(proposals[tx.args[1]]) =
           <<tx.args[1], "repo", "branch", "hash", "", "alice">>
    /\ proposals[tx.args[1]].mergedCommitHash = "merged-hash"
    /\ proposals[tx.args[1]].approvalCount = 1
    /\ votes[tx.args[1]]["bob"]

----------------------------------------------------------------------------
(* C31 *)

\* C31: the proposals getOpenProposals offers are those, of the proposals
\* getAllProposals read, that were Open when they were read and on which the
\* signer had not voted when hasVoted was asked; none of these is left out
\* and no other is put in, and they come in the order of their ids.
C31_OfferedAreOpenUnvoted ==
    /\ [](/\ \A k \in 1 .. Len(listing.unvoted) :
                /\ listing.unvoted[k] < Len(listing.results)
                /\ listing.results[listing.unvoted[k] + 1].state = Open
                /\ \A l \in 1 .. (k - 1) : listing.unvoted[l] < listing.unvoted[k]
          /\ listing.pc = "done"
             => /\ listing.i = Len(listing.results)
                /\ Len(listing.results) = listing.count)
    /\ [][listing.pc = "hasVoted" /\ listing'.pc = "hasVoted" /\ listing' # listing
          => LET p == listing.results[listing.i + 1] IN
             /\ listing'.i = listing.i + 1
             /\ listing'.unvoted =
                   IF p.state = Open /\ ~votes[p.id][SignerAddress]
                   THEN Append(listing.unvoted, p.id)
                   ELSE listing.unvoted]_vars

\* two proposals read: proposal 0 was Approved and is left out, proposal 1
\* was Open and not voted on by the signer and is offered
C31_Witness ==
    /\ listing.pc = "done"
    /\ Len(listing.results) = 2
    /\ listing.results[1].state = Approved
    /\ listing.results[2].state = Open
    /\ listing.unvoted = <<1>>

----------------------------------------------------------------------------
(* C38 *)

\* C38: getAllProposals, which reads proposalCount once and then calls
\* getProposal(i) for each i below it, never gets "invalid id", whatever
\* createProposal, vote and recordMerge calls fall between its reads; it
\* returns as many entries as the count it read, with the ids 0, 1, ... in
\* that order; and each entry is the proposal as it was at the moment of its
\* read.
C38_ListIsComplete ==
    /\ [](/\ listing.pc # "failed" /\ listing.error = ""
          /\ Len(listing.results) <= listing.count
          /\ listing.count <= proposalCount
          /\ listing.pc \in {"hasVoted", "done"}
             => Len(listing.results) = listing.count
          /\ \A k \in 1 .. Len(listing.results) :
                /\ listing.results[k].id = k - 1
                /\ Created(listing.results[k]) = Created(proposals[k - 1]))
    /\ [][listing'.results # listing.results /\ listing'.pc # "idle"
          => /\ Len(listing.results) < listing.count
             /\ listing'.results =
                   Append(listing.results, proposals[Len(listing.results)])]_vars

\* a list of one proposal, returned when there are two, the one in it voted
\* on since it was read
C38_Witness ==
    /\ listing.pc = "done"
    /\ listing.count = 1 /\ Len(listing.results) = 1
    /\ proposalCount = 2
    /\ listing.results[1].approvalCount = 0
    /\ proposals[0].approvalCount = 1

----------------------------------------------------------------------------
(* C32 *)

\* the lines of the push the hook has read
HookRead == SubSeq(hook.push, 1, Len(hook.push) - Len(hook.rest))

\* a line that creates a branch
NewBranch(ref) ==
    ref.prefix = "refs/heads/" /\ ref.oldrev = ZeroRev /\ ref.newrev # ZeroRev

\* the propose commands of the hook run for the branch named
CallsFor(name) == { j \in DOMAIN hook.calls : hook.calls[j].branch = name }

\* what the hook has done for the lines it has read: one propose command for
\* each created branch whose name is not in except, with the name and the new
\* head; none for master; and a proposal in the ledger for each command that
\* succeeded
HookProposes(except) ==
    /\ \A k \in DOMAIN HookRead :
          LET ref == HookRead[k] IN
          NewBranch(ref) /\ ref.name \notin except
          => /\ Cardinality(CallsFor(ref.name)) = 1
             /\ \A j \in CallsFor(ref.name) : hook.calls[j].commitHash = ref.newrev
    /\ CallsFor("master") = {}
    /\ \A id \in 0 .. (proposalCount - 1) : proposals[id].branchName # "master"
    /\ \A j \in DOMAIN hook.calls :
          hook.calls[j].ok
          => \E id \in 0 .. (proposalCount - 1) :
                /\ proposals[id].branchName = hook.calls[j].branch
                /\ proposals[id].commitHash = hook.calls[j].commitHash
                /\ proposals[id].repoId = "repo"

----------------------------------------------------------------------------
(* C7 *)

\* C7: for no proposal does mergeBranch return twice: the bridge never
\* produces two merges for the same proposal.
C7_AtMostOneMerge == \A id \in ProposalIds : mergesDone[id] <= 1

----------------------------------------------------------------------------
(* C8 *)

\* C8: whenever a proposal is Approved and a bridge process is running, then
\* eventually the proposal is Merged, or the run of that process's handler for
\* it has failed, or that process has stopped: an approval given while the
\* bridge was down is picked up by the bridge once it is up.
C8_NoApprovalLost ==
    \A id \in ProposalIds, b \in Bridges :
        [](proposals[id].state = Approved /\ running[b]
           => <>(\/ proposals[id].state = Merged
                 \/ handler[b][id].pc = "failed"
                 \/ ~running[b]))

====
